---- MODULE Spec2Model ----
(***************************************************************************)
(* Model of src/index.tsx: the pay-package / gross-margin calculator.      *)
(*                                                                         *)
(* The page is a form of DOM elements.  Every listener the script wires    *)
(* (init, the "input" and "change" listeners, the reset click handler) is  *)
(* one action; recalc() reads the form, writes sick_hours and pay_ot back  *)
(* into it and produces the outputs.                                       *)
(*                                                                         *)
(* Numbers are exact rationals <<n, d>> in lowest terms with d > 0; the    *)
(* non-finite doubles are <<1,0>> (+Infinity), <<-1,0>> (-Infinity) and    *)
(* <<0,0>> (NaN), produced by a division by 0 exactly as in JavaScript.    *)
(* Binary rounding error and overflow of doubles are not modelled.         *)
(***************************************************************************)
EXTENDS Integers, Sequences, FiniteSets, TLC

(* ---------------------------------------------------------------------- *)
(* Exact arithmetic standing for the doubles of the program                *)
(* ---------------------------------------------------------------------- *)
Abs(x) == IF x < 0 THEN -x ELSE x

Sign(x) == IF x < 0 THEN -1 ELSE IF x > 0 THEN 1 ELSE 0

RECURSIVE GCD(_, _)
GCD(a, b) == IF b = 0 THEN a ELSE GCD(b, a % b)

Norm(n, d) ==
  IF d = 0 THEN <<Sign(n), 0>>
  ELSE LET s == IF d < 0 THEN -1 ELSE 1
           g == GCD(Abs(n), Abs(d))
       IN <<(s * n) \div g, (s * d) \div g>>

R(n) == <<n, 1>>
Q(n, d) == Norm(n, d)
ZERO == <<0, 1>>
NAN == <<0, 0>>

IsFinite(a) == a[2] # 0
IsNaN(a) == a = NAN

Neg(a) == <<-a[1], a[2]>>

Add(a, b) ==
  IF IsNaN(a) \/ IsNaN(b) THEN NAN
  ELSE IF ~IsFinite(a) THEN (IF ~IsFinite(b) /\ b # a THEN NAN ELSE a)
  ELSE IF ~IsFinite(b) THEN b
  ELSE LET g == GCD(a[2], b[2])
       IN Norm(a[1] * (b[2] \div g) + b[1] * (a[2] \div g), (a[2] \div g) * b[2])

Sub(a, b) == Add(a, Neg(b))

Mul(a, b) ==
  IF IsNaN(a) \/ IsNaN(b) THEN NAN
  ELSE IF ~IsFinite(a) \/ ~IsFinite(b)
    THEN (IF a[1] = 0 \/ b[1] = 0 THEN NAN ELSE <<Sign(a[1]) * Sign(b[1]), 0>>)
  ELSE LET g1 == GCD(Abs(a[1]), b[2])
           g2 == GCD(Abs(b[1]), a[2])
       IN IF a[1] = 0 \/ b[1] = 0 THEN ZERO
          ELSE <<(a[1] \div g1) * (b[1] \div g2), (a[2] \div g2) * (b[2] \div g1)>>

(* IEEE division: x/0 is +-Infinity, 0/0 is NaN. *)
Div(a, b) ==
  IF IsNaN(a) \/ IsNaN(b) THEN NAN
  ELSE IF ~IsFinite(a) THEN (IF ~IsFinite(b) THEN NAN
                             ELSE <<a[1] * (IF b[1] < 0 THEN -1 ELSE 1), 0>>)
  ELSE IF ~IsFinite(b) THEN ZERO
  ELSE IF b[1] = 0 THEN <<Sign(a[1]), 0>>
  ELSE Mul(a, Norm(b[2], b[1]))

(* a < b; every comparison with NaN is false. *)
Lt(a, b) ==
  IF IsNaN(a) \/ IsNaN(b) THEN FALSE
  ELSE IF ~IsFinite(a) THEN a[1] < 0 /\ b # a
  ELSE IF ~IsFinite(b) THEN b[1] > 0
  ELSE LET g == GCD(a[2], b[2])
       IN a[1] * (b[2] \div g) < b[1] * (a[2] \div g)

Gt(a, b) == Lt(b, a)
Ge(a, b) == ~IsNaN(a) /\ ~IsNaN(b) /\ ~Lt(a, b)
Le(a, b) == Ge(b, a)

Max(a, b) == IF IsNaN(a) \/ IsNaN(b) THEN NAN ELSE IF Lt(a, b) THEN b ELSE a
Min(a, b) == IF IsNaN(a) \/ IsNaN(b) THEN NAN ELSE IF Lt(b, a) THEN b ELSE a

(* The integer nearest to |a| * scale, a tie going away from zero: the     *)
(* rounding of Number.prototype.toFixed and of Intl currency formatting.   *)
RoundScaled(a, scale) ==
  LET whole == Abs(a[1]) \div a[2]
      rem == Abs(a[1]) % a[2]
      frac == (rem * scale) \div a[2]
      left == (rem * scale) % a[2]
  IN whole * scale + frac + (IF 2 * left >= a[2] THEN 1 ELSE 0)

(* x.toFixed(2), read as the number the string denotes. *)
toFixed2(a) == Norm(Sign(a[1]) * RoundScaled(a, 100), 100)


(* ---------------------------------------------------------------------- *)
(* Program constants                                                       *)
(* ---------------------------------------------------------------------- *)
(* CLIENT_FEES, in thousandths (0.06 is 60). *)
CLIENT_FEES ==
  [c \in {"SimpliFI", "Careerstaff", "Medical Solutions", "AMN", "HWL",
          "Eisenhower Health", "Focus One", "Priority Group",
          "Intermountain Health", "AYA", "NYCHH", "Medefis"} |->
     CASE c = "SimpliFI" -> 60
       [] c = "Careerstaff" -> 35
       [] c = "Medical Solutions" -> 42
       [] c = "AMN" -> 50
       [] c = "HWL" -> 45
       [] c = "Eisenhower Health" -> 38
       [] c = "Focus One" -> 40
       [] c = "Priority Group" -> 39
       [] c = "Intermountain Health" -> 41
       [] c = "AYA" -> 48
       [] c = "NYCHH" -> 55
       [] c = "Medefis" -> 43]

BURDEN == Q(123, 100)
WEEKS_IN_MONTH == 4
DEFAULT_SCHEDULE_DAYS == 5
(* The target recalc passes to renderGauge. *)
GAUGE_TARGET == 20
(* The fixed non-billable orientation rate, 16.5. *)
NON_BILLABLE_RATE == Q(33, 2)

(* ---------------------------------------------------------------------- *)
(* The form: the content of each input element                             *)
(* ---------------------------------------------------------------------- *)
(* The value string of a numeric input: a number, the empty string, or a   *)
(* text parseFloat cannot read.                                            *)
Num(q) == [k |-> "num", v |-> q]
EMPTY == [k |-> "empty", v |-> ZERO]
JUNK == [k |-> "junk", v |-> ZERO]

NumIds ==
  {"bill_regular", "bill_ot", "pay_regular", "pay_ot", "hrs_regular", "hrs_ot",
   "contract_len", "house_daily", "meals_daily", "orient_hours", "orient_pay",
   "bonus_start", "bonus_complete", "bcg_reimb", "sick_hours", "schedule_days"}

(* parseFloat(n.value): NaN for the empty string and for unreadable text. *)
parseFloat(fld) == IF fld.k = "num" THEN fld.v ELSE NAN

(* valNum(id, fallback); m is the set of ids with no element in the page. *)
valNum(f, m, id, fallback) ==
  IF id \in m THEN fallback
  ELSE LET v == parseFloat(f[id]) IN IF IsFinite(v) THEN v ELSE fallback

(* setValue(id, value): skipped when the element is missing. *)
setValue(f, m, id, fld) == IF id \in m THEN f ELSE [f EXCEPT ![id] = fld]

(* (el(id) as HTMLSelectElement)?.value || dflt *)
selectValue(f, m, id, dflt) ==
  IF id \in m \/ f[id] = "" THEN dflt ELSE f[id]

(* fmtUSD(v): the sign and the cents of the currency string; a non-finite  *)
(* value is formatted as 0.                                                *)
fmtUSD(v) ==
  LET x == IF IsFinite(v) THEN v ELSE ZERO
  IN [neg |-> x[1] < 0, cents |-> RoundScaled(x, 100)]

(* ---------------------------------------------------------------------- *)
(* recalc(), piece by piece                                                *)
(* ---------------------------------------------------------------------- *)
(* const fee = CLIENT_FEES[client] || 0 *)
feeOf(client) ==
  IF client \in DOMAIN CLIENT_FEES THEN Q(CLIENT_FEES[client], 1000) ELSE ZERO

(* clientOf without the "SimpliFI" default. *)
clientOfNoDefault(f, m) == selectValue(f, m, "client", "")

(* const client = el("client")?.value || "SimpliFI" *)
clientOf(f, m) == selectValue(f, m, "client", "SimpliFI")

(* hrsR > 40 ? amount/40 : (hrsR > 0 ? amount/hrsR : 0): NH, HA_hourly, MI_hourly *)
stipendHourly(amount, hrsR) ==
  IF Gt(hrsR, R(40)) THEN Div(amount, R(40))
  ELSE IF Gt(hrsR, ZERO) THEN Div(amount, hrsR) ELSE ZERO

(* spreadHourly with the guard >= 0 in place of > 0. *)
spreadHourlyGe(lump, contractRegularHours) ==
  IF Ge(contractRegularHours, ZERO) THEN Div(lump, contractRegularHours) ELSE ZERO

(* contractRegularHours > 0 ? lump / contractRegularHours : 0 *)
spreadHourly(lump, contractRegularHours) ==
  IF Gt(contractRegularHours, ZERO) THEN Div(lump, contractRegularHours) ELSE ZERO

(* The value setValue("sick_hours", ...) writes when auto sick is on. *)
sickHoursText(autoSickHours) ==
  IF Gt(autoSickHours, ZERO) THEN Num(toFixed2(autoSickHours)) ELSE EMPTY

(* if (!sickBox || sickBox.checked) setValue("sick_hours", ...) *)
autoSickOn(f, m) == "auto_sick_calc" \in m \/ f["auto_sick_calc"]

writeSickHours(f, m, autoSickHours) ==
  IF autoSickOn(f, m) THEN setValue(f, m, "sick_hours", sickHoursText(autoSickHours))
  ELSE f

(* readSickHours with the field read before line 202 has written it. *)
readSickHoursStale(f, m, autoSickHours) == valNum(f, m, "sick_hours", autoSickHours)

(* readSickHours with the fallback 0 of the other inputs. *)
readSickHoursZeroFallback(f, m, autoSickHours) ==
  valNum(writeSickHours(f, m, autoSickHours), m, "sick_hours", ZERO)

(* const sickHours = valNum("sick_hours", autoSickHours), read after the write *)
readSickHours(f, m, autoSickHours) ==
  valNum(writeSickHours(f, m, autoSickHours), m, "sick_hours", autoSickHours)

(* effectiveOrientPay that takes the typed rate in both modes. *)
effectiveOrientPayTyped(orientType, orientPay) == orientPay

(* const effectiveOrientPay = orientType === "Non Billable" ? 16.5 : orientPay *)
effectiveOrientPay(orientType, orientPay) ==
  IF orientType = "Non Billable" THEN NON_BILLABLE_RATE ELSE orientPay

orientPayRatePerHr(orientType, orientPay, payR, HA_hourly, MI_hourly) ==
  IF orientType = "Billable" THEN Add(Add(payR, HA_hourly), MI_hourly)
  ELSE effectiveOrientPay(orientType, orientPay)

orientationHourlyOf(orientType, totalOrientationPay, contractRegularHours) ==
  IF orientType = "Non Billable" /\ Gt(contractRegularHours, ZERO)
  THEN Div(totalOrientationPay, contractRegularHours) ELSE ZERO

(* The daily divisor without Math.max(1, ...). *)
dailyDivisorUnguarded(scheduleDays) == scheduleDays

(* Math.max(1, scheduleDays) *)
dailyDivisor(scheduleDays) == Max(R(1), scheduleDays)

(* weeklyOnW2TaxableOf with the daily excess not multiplied by the days. *)
weeklyOnW2TaxableNoDays(hrsR, payR, scheduleDays, OT_if_above_8h, OT_rate_if_above_40) ==
  IF Gt(hrsR, R(40))
  THEN Add(Mul(Sub(hrsR, OT_if_above_8h), payR), Mul(OT_if_above_8h, OT_rate_if_above_40))
  ELSE Mul(hrsR, payR)

weeklyOnW2TaxableOf(hrsR, payR, scheduleDays, OT_if_above_8h, OT_rate_if_above_40) ==
  IF Gt(hrsR, R(40))
  THEN Add(Mul(Sub(hrsR, Mul(OT_if_above_8h, scheduleDays)), payR),
           Mul(Mul(OT_if_above_8h, scheduleDays), OT_rate_if_above_40))
  ELSE Mul(hrsR, payR)

(* hourlyMarginOf with the burden applied to the stipend and BCG term too. *)
hourlyMarginBurdenAll(hrAfterFee, payR, NH, bcgHourly, startBonusHourly, completeBonusHourly, sickHourly, orientType, orientationHourly) ==
  Sub(Sub(Sub(Sub(hrAfterFee,
                  Mul(payR, BURDEN)),
              Mul(Add(NH, bcgHourly), BURDEN)),
          Mul(Add(Add(startBonusHourly, completeBonusHourly), sickHourly), BURDEN)),
      IF orientType = "Non Billable" THEN Mul(orientationHourly, BURDEN) ELSE ZERO)

hourlyMarginOf(hrAfterFee, payR, NH, bcgHourly, startBonusHourly, completeBonusHourly, sickHourly, orientType, orientationHourly) ==
  Sub(Sub(Sub(Sub(hrAfterFee,
                  Mul(payR, BURDEN)),
              Add(NH, bcgHourly)),
          Mul(Add(Add(startBonusHourly, completeBonusHourly), sickHourly), BURDEN)),
      IF orientType = "Non Billable" THEN Mul(orientationHourly, BURDEN) ELSE ZERO)

(* payOtText without toFixed(2). *)
payOtTextUnrounded(payR) ==
  IF Gt(payR, ZERO) THEN Num(Mul(payR, Q(3, 2))) ELSE EMPTY

(* setValue("pay_ot", (payR > 0) ? (PT_OVERTIME).toFixed(2) : '') *)
payOtText(payR) ==
  IF Gt(payR, ZERO) THEN Num(toFixed2(Mul(payR, Q(3, 2)))) ELSE EMPTY

(* renderGauge(margin, target): the message, the clamped progress and the  *)
(* stroke colour; circ = 2*PI*60 only scales the dash offset.              *)
gaugeMessage(margin, target, billRegular) ==
  IF margin = ZERO /\ billRegular = ZERO THEN "Enter numbers to analyze margin."
  ELSE IF Lt(margin, ZERO)
    THEN "Margin is negative. Review pay rates and bill rates."
  ELSE IF Lt(margin, target) THEN "Margin is below target of ${fmtUSD(target)}."
  ELSE "Margin looks healthy."

(* gaugeStroke with > in place of >=. *)
gaugeStrokeStrict(margin, target) ==
  IF Gt(margin, target) THEN "#1e8e3e"
  ELSE IF Gt(margin, ZERO) THEN "#f9ab00" ELSE "#d93025"

gaugeStroke(margin, target) ==
  IF Ge(margin, target) THEN "#1e8e3e"
  ELSE IF Gt(margin, ZERO) THEN "#f9ab00" ELSE "#d93025"

renderGauge(margin, target, f, m) ==
  [value |-> fmtUSD(margin),
   msg |-> gaugeMessage(margin, target, valNum(f, m, "bill_regular", ZERO)),
   progress |-> IF Gt(target, ZERO)
                THEN Max(ZERO, Min(R(1), Div(margin, Mul(target, R(2)))))
                ELSE ZERO,
   stroke |-> gaugeStroke(margin, target)]

(* recalc() computes its numbers in source order; each step below adds the *)
(* constants of a few lines to the record c of those computed before.      *)

(* Lines 162-179: the fee and the inputs. *)
calcInputs(f, m) ==
  [fee |-> feeOf(clientOf(f, m)),
   billR |-> valNum(f, m, "bill_regular", ZERO),
   billOT |-> valNum(f, m, "bill_ot", ZERO),
   payR |-> valNum(f, m, "pay_regular", ZERO),
   hrsR |-> valNum(f, m, "hrs_regular", ZERO),
   hrsOT |-> valNum(f, m, "hrs_ot", ZERO),
   weeks |-> valNum(f, m, "contract_len", ZERO),
   houseDaily |-> valNum(f, m, "house_daily", ZERO),
   mealsDaily |-> valNum(f, m, "meals_daily", ZERO),
   orientHours |-> valNum(f, m, "orient_hours", ZERO),
   orientPay |-> valNum(f, m, "orient_pay", ZERO),
   bonusStart |-> valNum(f, m, "bonus_start", ZERO),
   bonusComplete |-> valNum(f, m, "bonus_complete", ZERO),
   bcgReimb |-> valNum(f, m, "bcg_reimb", ZERO),
   scheduleDays |-> valNum(f, m, "schedule_days", R(DEFAULT_SCHEDULE_DAYS))]

(* const orientType = el("orient_type")?.value || "Non Billable" *)
orientTypeOf(f, m) == selectValue(f, m, "orient_type", "Non Billable")

(* Lines 184-196: after-fee rates, daily stipend, contract hours. *)
calcRates(c) ==
  c @@ [hrAfterFee |-> Mul(c.billR, Sub(R(1), c.fee)),
        otHrAfterFee |-> Mul(c.billOT, Sub(R(1), c.fee)),
        ND |-> Add(c.houseDaily, c.mealsDaily),
        HA_hourly |-> stipendHourly(Mul(c.houseDaily, R(7)), c.hrsR),
        MI_hourly |-> stipendHourly(Mul(c.mealsDaily, R(7)), c.hrsR),
        contractRegularHours |-> Mul(c.hrsR, c.weeks),
        contractOTHours |-> Mul(c.hrsOT, c.weeks),
        PT_OVERTIME |-> Mul(c.payR, Q(3, 2)),
        dailyDivisor |-> dailyDivisor(c.scheduleDays)]

(* Lines 189, 197, 206-208, 224, 243. *)
calcSpreads(c) ==
  c @@ [NW |-> Mul(c.ND, R(7)),
        totalContractHours |-> Add(c.contractRegularHours, c.contractOTHours),
        startBonusHourly |-> spreadHourly(c.bonusStart, c.contractRegularHours),
        completeBonusHourly |-> spreadHourly(c.bonusComplete, c.contractRegularHours),
        bcgHourly |-> spreadHourly(c.bcgReimb, c.contractRegularHours),
        dailyRegularHours |-> Div(c.hrsR, c.dailyDivisor),
        weeklyBillingClient |->
          Add(Mul(c.hrsR, c.hrAfterFee), Mul(c.hrsOT, c.otHrAfterFee))]

(* Lines 190, 201, 213-216, 225, 237, 244-245. *)
calcStipend(c, orientType) ==
  c @@ [NH |-> stipendHourly(c.NW, c.hrsR),
        autoSickHours |-> Div(c.totalContractHours, R(30)),
        totalOrientationPay |->
          Mul(c.orientHours,
              orientPayRatePerHr(orientType, c.orientPay, c.payR, c.HA_hourly, c.MI_hourly)),
        OT_if_above_8h |->
          IF Gt(c.dailyRegularHours, R(8)) THEN Sub(c.dailyRegularHours, R(8)) ELSE ZERO,
        weeklyStipendNT |->
          IF Gt(c.hrsR, R(40)) THEN Div(Mul(c.hrsR, c.NW), R(40)) ELSE c.NW,
        monthlyBillingClient |-> Mul(c.weeklyBillingClient, R(WEEKS_IN_MONTH)),
        contractBillingClient |-> Mul(c.weeklyBillingClient, c.weeks)]

(* Lines 202-203, 217-219, 226, 256. *)
calcSick(c, f, m, orientType) ==
  c @@ [sickHours |-> readSickHours(f, m, c.autoSickHours),
        orientationHourly |->
          orientationHourlyOf(orientType, c.totalOrientationPay, c.contractRegularHours),
        OT_rate_if_above_40 |->
          IF Gt(c.hrsR, R(40)) THEN Add(c.PT_OVERTIME, c.NH) ELSE ZERO,
        otMargin |-> Sub(c.otHrAfterFee, Mul(c.PT_OVERTIME, BURDEN))]

(* Lines 209, 229-231. *)
calcPayroll(c) ==
  c @@ [sickHourly |-> spreadHourly(Mul(c.sickHours, c.payR), c.contractRegularHours),
        weeklyOnW2Taxable |->
          weeklyOnW2TaxableOf(c.hrsR, c.payR, c.scheduleDays, c.OT_if_above_8h,
                              c.OT_rate_if_above_40)]

(* Lines 234, 240, 248-253. *)
calcMargin(c, orientType) ==
  c @@ [totalWeeklyTaxableWithOT |->
          Add(c.weeklyOnW2Taxable, Mul(c.hrsOT, c.PT_OVERTIME)),
        weeklyGross |-> Add(c.weeklyOnW2Taxable, c.weeklyStipendNT),
        hourlyMargin |->
          hourlyMarginOf(c.hrAfterFee, c.payR, c.NH, c.bcgHourly, c.startBonusHourly,
                         c.completeBonusHourly, c.sickHourly, orientType,
                         c.orientationHourly)]

(* Line 257. *)
calcWeeklyNet(c) ==
  c @@ [weeklyNET |-> Add(Mul(c.hourlyMargin, c.hrsR), Mul(c.otMargin, c.hrsOT))]

(* Lines 258-259. *)
calcNets(c) ==
  c @@ [monthlyNET |-> Mul(c.weeklyNET, R(WEEKS_IN_MONTH)),
        contractNET |-> Mul(c.weeklyNET, c.weeks)]

(* The inputs that are outputs of no kind: the raw orientation rate and    *)
(* the two daily allowances are kept out of what recalc() shows.           *)
CalcKeys ==
  {"fee", "billR", "billOT", "payR", "hrsR", "hrsOT", "weeks", "orientHours",
   "bonusStart", "bonusComplete", "bcgReimb", "scheduleDays", "hrAfterFee",
   "otHrAfterFee", "ND", "NW", "NH", "HA_hourly", "MI_hourly",
   "contractRegularHours", "totalContractHours", "autoSickHours", "sickHours",
   "startBonusHourly", "completeBonusHourly", "bcgHourly", "sickHourly",
   "totalOrientationPay", "orientationHourly", "PT_OVERTIME", "dailyDivisor",
   "dailyRegularHours", "OT_if_above_8h", "OT_rate_if_above_40",
   "weeklyOnW2Taxable", "totalWeeklyTaxableWithOT", "weeklyStipendNT",
   "weeklyGross", "weeklyBillingClient", "monthlyBillingClient",
   "contractBillingClient", "hourlyMargin", "otMargin", "weeklyNET",
   "monthlyNET", "contractNET"}

(* Every number recalc() computes from the form f it is entered with; the  *)
(* sick hours are read after the sick_hours write of line 202.             *)
calcAll(f, m) ==
  calcNets(calcWeeklyNet(calcMargin(calcPayroll(calcSick(calcStipend(calcSpreads(
    calcRates(calcInputs(f, m))), orientTypeOf(f, m)), f, m, orientTypeOf(f, m))),
    orientTypeOf(f, m))))

calcOf(f, m) ==
  LET c == calcAll(f, m) IN [k \in CalcKeys |-> c[k]]

(* The setText calls of recalc(): element id |-> formatted text. *)
textOf(c) ==
  [afterfee_regular |-> fmtUSD(c.hrAfterFee), afterfee_ot |-> fmtUSD(c.otHrAfterFee),
   np_tax_hourly |-> fmtUSD(c.payR),
   np_tax_daily |-> fmtUSD(Mul(c.payR, c.dailyRegularHours)),
   np_tax_weekly |-> fmtUSD(c.totalWeeklyTaxableWithOT),
   np_tax_monthly |-> fmtUSD(Mul(c.totalWeeklyTaxableWithOT, R(WEEKS_IN_MONTH))),
   np_nt_hourly |-> fmtUSD(c.NH), np_nt_daily |-> fmtUSD(c.ND),
   np_nt_weekly |-> fmtUSD(c.weeklyStipendNT),
   np_nt_monthly |-> fmtUSD(Mul(c.weeklyStipendNT, R(WEEKS_IN_MONTH))),
   np_total_hourly |-> fmtUSD(Add(c.payR, c.NH)),
   np_total_daily |-> fmtUSD(Add(Mul(c.payR, c.dailyRegularHours), c.ND)),
   np_total_weekly |-> fmtUSD(Add(c.totalWeeklyTaxableWithOT, c.weeklyStipendNT)),
   np_total_monthly |->
     fmtUSD(Mul(Add(c.totalWeeklyTaxableWithOT, c.weeklyStipendNT), R(WEEKS_IN_MONTH))),
   gm_hourly |-> fmtUSD(c.hourlyMargin), gm_weekly |-> fmtUSD(c.weeklyNET),
   gm_monthly |-> fmtUSD(c.monthlyNET), gm_contract |-> fmtUSD(c.contractNET),
   bill_weekly |-> fmtUSD(c.weeklyBillingClient),
   bill_monthly |-> fmtUSD(c.monthlyBillingClient),
   bill_contract |-> fmtUSD(c.contractBillingClient),
   pkg_total_hourly |-> fmtUSD(Add(c.payR, c.NH)), pkg_w2 |-> fmtUSD(c.payR),
   pkg_w2_ot |-> fmtUSD(c.PT_OVERTIME), pkg_stipend_hourly |-> fmtUSD(c.NH),
   pkg_ot_special |-> fmtUSD(c.OT_rate_if_above_40),
   pkg_weekly_gross |-> fmtUSD(c.weeklyGross),
   pkg_weekly_w2 |-> fmtUSD(c.weeklyOnW2Taxable),
   pkg_weekly_stipend |-> fmtUSD(c.weeklyStipendNT),
   orient_total |-> fmtUSD(c.totalOrientationPay),
   hourly_start |-> fmtUSD(c.startBonusHourly),
   hourly_complete |-> fmtUSD(c.completeBonusHourly),
   hourly_bcg |-> fmtUSD(c.bcgHourly), hourly_sick |-> fmtUSD(c.sickHourly)]

(* The form recalc() leaves: sick_hours (line 202) and pay_ot (line 268). *)
recalcForm(f, m) ==
  LET hrsR == valNum(f, m, "hrs_regular", ZERO)
      hrsOT == valNum(f, m, "hrs_ot", ZERO)
      weeks == valNum(f, m, "contract_len", ZERO)
      autoSickHours == Div(Add(Mul(hrsR, weeks), Mul(hrsOT, weeks)), R(30))
  IN setValue(writeSickHours(f, m, autoSickHours), m, "pay_ot",
              payOtText(valNum(f, m, "pay_regular", ZERO)))

(* What recalc() shows: its numbers, the texts it sets and the gauge. *)
recalcOut(f, m) ==
  LET c == calcOf(f, m)
  IN [calc |-> c, text |-> textOf(c),
      gauge |-> renderGauge(c.hourlyMargin, R(GAUGE_TARGET), f, m)]

(* ---------------------------------------------------------------------- *)
(* The page as a state machine                                             *)
(* ---------------------------------------------------------------------- *)
(* User actions (edits and reset clicks) in one session. *)
MaxEdits == 2

VARIABLES
  form,     \* id |-> content of the input element
  missing,  \* ids that have no element in the page
  out,      \* what the last recalc() showed
  queue,    \* listeners the browser has still to call for the current event
  loaded,   \* init() has run
  runs,     \* runs of recalc() since the last user edit
  edits     \* user actions so far

vars == <<form, missing, out, queue, loaded, runs, edits>>

BlankForm ==
  [id \in NumIds |-> EMPTY] @@
  [client |-> "", orient_type |-> "", auto_sick_calc |-> TRUE]

(* A page that comes pre-filled with a quote. *)
QuoteForm ==
  [BlankForm EXCEPT
     !["client"] = "SimpliFI",
     !["bill_regular"] = Num(R(50)), !["bill_ot"] = Num(R(75)),
     !["pay_regular"] = Num(R(30)), !["hrs_regular"] = Num(R(36)),
     !["contract_len"] = Num(R(13)), !["house_daily"] = Num(R(20)),
     !["meals_daily"] = Num(R(15)), !["orient_hours"] = Num(R(8)),
     !["bonus_start"] = Num(R(1000)), !["bonus_complete"] = Num(R(500)),
     !["bcg_reimb"] = Num(R(100)), !["schedule_days"] = Num(R(5))]

(* Pages that lack one of the elements the script tolerates missing. *)
MissingChoices ==
  {{}, {"client"}, {"auto_sick_calc"}, {"sick_hours"}, {"pay_ot"},
   {"schedule_days"}}

(* What the user may put into each element.  The client list may hold an   *)
(* option of the page's own that CLIENT_FEES does not know, and an empty   *)
(* placeholder option.                                                     *)
Typeable(id) ==
  CASE id = "bill_regular" -> {Num(R(50)), Num(R(20)), EMPTY}
    [] id = "bill_ot" -> {Num(R(75))}
    [] id = "pay_regular" -> {Num(R(30)), Num(Q(101, 4)), Num(R(-10)), JUNK, EMPTY}
    [] id = "pay_ot" -> {Num(R(99))}
    [] id = "hrs_regular" -> {Num(R(36)), Num(R(45)), Num(R(0)), Num(R(-36))}
    [] id = "hrs_ot" -> {Num(R(4)), EMPTY}
    [] id = "contract_len" -> {Num(R(13)), Num(R(0)), Num(R(-13))}
    [] id = "house_daily" -> {Num(R(20))}
    [] id = "meals_daily" -> {Num(R(15))}
    [] id = "orient_hours" -> {Num(R(8))}
    [] id = "orient_pay" -> {Num(R(40)), Num(R(0))}
    [] id = "bonus_start" -> {Num(R(1000))}
    [] id = "bonus_complete" -> {Num(R(500))}
    [] id = "bcg_reimb" -> {Num(R(100))}
    [] id = "sick_hours" -> {Num(R(10)), JUNK}
    [] id = "schedule_days" -> {Num(R(5)), Num(R(3)), Num(R(0)), Num(Q(1, 2)), EMPTY}
    [] id = "client" -> {"SimpliFI", "Careerstaff", "Acme Staffing", ""}
    [] id = "orient_type" -> {"Billable", "Non Billable"}
    [] id = "auto_sick_calc" -> BOOLEAN

Ids == NumIds \cup {"client", "orient_type", "auto_sick_calc"}

(* The texts the page shows before the first recalc(). *)
BlankOut == recalcOut(BlankForm, {})

Init ==
  /\ form \in {BlankForm, QuoteForm}
  /\ missing \in MissingChoices
  /\ (form = BlankForm => missing = {})
  /\ out = BlankOut
  /\ queue = <<"init">>
  /\ loaded = FALSE
  /\ runs = 0
  /\ edits = 0

(* The listeners of an element, in the order the browser calls them: an    *)
(* edit fires "input" and, on a select or a checkbox, "change" after it.   *)
Listeners(id) ==
  CASE id = "pay_regular" -> <<"pay_regular_input", "recalc">>
    [] id = "client" -> <<"recalc", "client_change">>
    [] id = "orient_type" -> <<"recalc", "orient_change">>
    [] id = "auto_sick_calc" -> <<"recalc", "recalc">>
    [] OTHER -> <<"recalc">>

(* sync() of wirePayToCandidate *)
sync(f, m) ==
  LET w2Value == parseFloat(IF f["pay_regular"].k = "empty" THEN Num(ZERO)
                            ELSE f["pay_regular"])
  IN setValue(f, m, "pay_ot",
              IF Gt(w2Value, ZERO) THEN Num(toFixed2(Mul(w2Value, Q(3, 2)))) ELSE EMPTY)

(* ensureClientSelector: an empty selection becomes "SimpliFI". *)
ensureClientSelector(f, m) ==
  IF "client" \notin m /\ f["client"] = ""
  THEN [f EXCEPT !["client"] = "SimpliFI"] ELSE f

(* ensureOrientationControls: the type is set to "Non Billable", and an    *)
(* empty or zero orient_pay to 16.5.                                       *)
ensureOrientationControls(f, m) ==
  IF "orient_type" \in m THEN f
  ELSE LET g == [f EXCEPT !["orient_type"] = "Non Billable"]
       IN IF g["orient_pay"].k = "empty" \/ parseFloat(g["orient_pay"]) = ZERO
          THEN [g EXCEPT !["orient_pay"] = Num(NON_BILLABLE_RATE)] ELSE g

(* init(): DOMContentLoaded *)
RunInit ==
  /\ queue # <<>> /\ Head(queue) = "init"
  /\ LET f1 == sync(ensureOrientationControls(ensureClientSelector(form, missing),
                                              missing), missing)
     IN /\ form' = recalcForm(f1, missing)
        /\ out' = recalcOut(f1, missing)
  /\ queue' = Tail(queue)
  /\ loaded' = TRUE
  /\ runs' = 1
  /\ UNCHANGED <<missing, edits>>

(* The user changes the content of one element. *)
UserInput ==
  /\ loaded /\ queue = <<>> /\ edits < MaxEdits
  /\ \E id \in Ids \ missing : \E v \in Typeable(id) :
       /\ v # form[id]
       /\ form' = [form EXCEPT ![id] = v]
       /\ queue' = Listeners(id)
  /\ runs' = 0
  /\ edits' = edits + 1
  /\ UNCHANGED <<missing, out, loaded>>

(* The listener recalc. *)
RunRecalc ==
  /\ queue # <<>> /\ Head(queue) = "recalc"
  /\ form' = recalcForm(form, missing)
  /\ out' = recalcOut(form, missing)
  /\ queue' = Tail(queue)
  /\ runs' = runs + 1
  /\ UNCHANGED <<missing, loaded, edits>>

(* pay_regular's own "input" listener: sync(); recalc(). *)
RunPayRegularInput ==
  /\ queue # <<>> /\ Head(queue) = "pay_regular_input"
  /\ form' = recalcForm(sync(form, missing), missing)
  /\ out' = recalcOut(sync(form, missing), missing)
  /\ queue' = Tail(queue)
  /\ runs' = runs + 1
  /\ UNCHANGED <<missing, loaded, edits>>

(* client's "change" listener: it formats CLIENT_FEES[value] before it     *)
(* calls recalc(), and throws there when the table has no such client.     *)
RunClientChange ==
  /\ queue # <<>> /\ Head(queue) = "client_change"
  /\ IF form["client"] \in DOMAIN CLIENT_FEES
     THEN /\ form' = recalcForm(form, missing)
          /\ out' = recalcOut(form, missing)
          /\ runs' = runs + 1
     ELSE UNCHANGED <<form, out, runs>>
  /\ queue' = Tail(queue)
  /\ UNCHANGED <<missing, loaded, edits>>

(* orient_type's "change" listener. *)
RunOrientChange ==
  /\ queue # <<>> /\ Head(queue) = "orient_change"
  /\ LET f1 == IF form["orient_type"] = "Non Billable"
               THEN setValue(form, missing, "orient_pay", Num(NON_BILLABLE_RATE))
               ELSE form
     IN /\ form' = recalcForm(f1, missing)
        /\ out' = recalcOut(f1, missing)
  /\ queue' = Tail(queue)
  /\ runs' = runs + 1
  /\ UNCHANGED <<missing, loaded, edits>>

(* The reset button's click listener. *)
ResetClick ==
  /\ loaded /\ queue = <<>> /\ edits < MaxEdits
  /\ LET f0 == [id \in Ids |-> IF id \in NumIds THEN EMPTY ELSE form[id]]
         f1 == IF "client" \in missing THEN f0
               ELSE [f0 EXCEPT !["client"] = "SimpliFI"]
         f2 == IF "orient_type" \in missing THEN f1
               ELSE [f1 EXCEPT !["orient_type"] = "Non Billable"]
         f3 == [f2 EXCEPT !["orient_pay"] = Num(NON_BILLABLE_RATE)]
         f4 == setValue(f3, missing, "schedule_days", Num(R(5)))
         f5 == IF "auto_sick_calc" \in missing THEN f4
               ELSE [f4 EXCEPT !["auto_sick_calc"] = TRUE]
     IN /\ form' = recalcForm(f5, missing)
        /\ out' = recalcOut(f5, missing)
  /\ runs' = 1
  /\ edits' = edits + 1
  /\ UNCHANGED <<missing, queue, loaded>>

Next ==
  \/ RunInit
  \/ UserInput
  \/ RunRecalc
  \/ RunPayRegularInput
  \/ RunClientChange
  \/ RunOrientChange
  \/ ResetClick

Spec == Init /\ [][Next]_vars

(* ---------------------------------------------------------------------- *)
(* renderGauge on its own: margins drawn from a range, in half dollars     *)
(* ---------------------------------------------------------------------- *)
MaxGaugeMargin == 45

InitGauge ==
  /\ \E b \in {EMPTY, Num(ZERO), Num(R(50))} :
       form = [BlankForm EXCEPT !["bill_regular"] = b]
  /\ missing = {}
  /\ \E k \in (-2 * MaxGaugeMargin)..(2 * MaxGaugeMargin) :
       out = [BlankOut EXCEPT !.calc.hourlyMargin = Q(k, 2)]
  /\ queue = <<"renderGauge">>
  /\ loaded = TRUE
  /\ runs = 0
  /\ edits = 0

(* recalc's last statement: renderGauge(hourlyMargin, 20). *)
RunRenderGauge ==
  /\ queue # <<>> /\ Head(queue) = "renderGauge"
  /\ out' = [out EXCEPT !.gauge =
               renderGauge(out.calc.hourlyMargin, R(GAUGE_TARGET), form, missing)]
  /\ queue' = Tail(queue)
  /\ UNCHANGED <<form, missing, loaded, runs, edits>>

NextGauge == RunRenderGauge

SpecGauge == InitGauge /\ [][NextGauge]_vars

(* ---------------------------------------------------------------------- *)
(* recalc() on its own: two runs on a form drawn from a product of inputs  *)
(* ---------------------------------------------------------------------- *)
InitCalc ==
  /\ \E ot \in {"Billable", "Non Billable", ""},
        op \in {EMPTY, Num(NON_BILLABLE_RATE), Num(R(40))},
        pr \in {EMPTY, Num(R(30))},
        hr \in {Num(ZERO), Num(R(36)), Num(R(45))},
        ho \in {EMPTY, Num(R(4))},
        cl \in {Num(ZERO), Num(R(13))},
        sh \in {EMPTY, JUNK, Num(R(10))},
        po \in {EMPTY, Num(R(99))},
        a \in BOOLEAN :
       form = [QuoteForm EXCEPT
                 !["orient_type"] = ot, !["orient_pay"] = op,
                 !["pay_regular"] = pr, !["hrs_regular"] = hr, !["hrs_ot"] = ho,
                 !["contract_len"] = cl, !["sick_hours"] = sh, !["pay_ot"] = po,
                 !["auto_sick_calc"] = a]
  /\ missing \in {{}, {"orient_type"}}
  /\ out = BlankOut
  /\ queue = <<"recalc", "recalc">>
  /\ loaded = TRUE
  /\ runs = 0
  /\ edits = 0

NextCalc == RunRecalc

SpecCalc == InitCalc /\ [][NextCalc]_vars

(* ---------------------------------------------------------------------- *)
(* Properties                                                              *)
(* ---------------------------------------------------------------------- *)
(* recalc() has run on the form as it stands. *)
Fresh == loaded /\ runs > 0

calc == out.calc

(* v is x rounded to two decimals, a tie going away from zero (x > 0). *)
IsRounded2(v, x) ==
  /\ 100 % v[2] = 0
  /\ Gt(Sub(v, x), Q(-1, 200))
  /\ Le(Sub(v, x), Q(1, 200))

(* The margin formula of the claim, with the per-hour costs given. *)
MarginFormula(sb, cb, bcg, sick, orient) ==
  Sub(Sub(Sub(Sub(Mul(calc.billR, Sub(R(1), calc.fee)),
                  Mul(calc.payR, Q(123, 100))),
              Add(calc.NH, bcg)),
          Mul(Add(Add(sb, cb), sick), Q(123, 100))),
      IF orientTypeOf(form, missing) = "Non Billable"
      THEN Mul(orient, Q(123, 100)) ELSE ZERO)

(* C1, as stated: the hourly margin is hrAfterFee - payRegular*1.23        *)
(* - (NH + bcgHourly) - (startBonusHourly + completeBonusHourly +          *)
(* sickHourly)*1.23 - (orientationHourly*1.23 when Non Billable), each     *)
(* hourly being its lump sum divided by contractRegularHours, for every    *)
(* combination of inputs (read here for every contractRegularHours # 0).   *)
C1_MarginLumpOverHours ==
  (Fresh /\ calc.contractRegularHours # ZERO) =>
    LET crh == calc.contractRegularHours
    IN calc.hourlyMargin =
         MarginFormula(Div(calc.bonusStart, crh), Div(calc.bonusComplete, crh),
                       Div(calc.bcgReimb, crh),
                       Div(Mul(calc.sickHours, calc.payR), crh),
                       Div(calc.totalOrientationPay, crh))

(* C1, amended: the same formula, each hourly being its lump sum divided   *)
(* by contractRegularHours when contractRegularHours > 0 and 0 otherwise;  *)
(* the stipend and BCG terms are not burdened, the others are.             *)
C1_MarginFormula ==
  Fresh =>
    LET crh == calc.contractRegularHours
        per(lump) == IF Gt(crh, ZERO) THEN Div(lump, crh) ELSE ZERO
    IN calc.hourlyMargin =
         MarginFormula(per(calc.bonusStart), per(calc.bonusComplete),
                       per(calc.bcgReimb), per(Mul(calc.sickHours, calc.payR)),
                       per(calc.totalOrientationPay))

C1_Witness ==
  /\ Fresh
  /\ Gt(calc.contractRegularHours, ZERO)
  /\ Gt(calc.bonusStart, ZERO) /\ Gt(calc.bcgReimb, ZERO) /\ Gt(calc.NH, ZERO)
  /\ Gt(calc.sickHourly, ZERO) /\ Gt(calc.orientationHourly, ZERO)
  /\ calc.fee = Q(60, 1000)

(* C2: for all inputs, zero, missing, unparsable and negative ones         *)
(* included, recalc divides by no 0: every number it computes is finite,   *)
(* the daily-hours divisor is max(1, scheduleDays) >= 1, and a stipend or  *)
(* one-time spread is non-zero only when its divisor (40 or hoursRegular,  *)
(* contractRegularHours) is > 0.                                           *)
C2_NoDivisionByZero ==
  Fresh =>
    /\ \A k \in DOMAIN calc : IsFinite(calc[k])
    /\ IsFinite(out.gauge.progress)
    /\ Ge(calc.dailyDivisor, R(1))
    /\ Ge(calc.dailyDivisor, calc.scheduleDays)
    /\ calc.dailyRegularHours = Div(calc.hrsR, calc.dailyDivisor)
    /\ (~Gt(calc.hrsR, ZERO) =>
          calc.NH = ZERO /\ calc.HA_hourly = ZERO /\ calc.MI_hourly = ZERO)
    /\ (~Gt(calc.contractRegularHours, ZERO) =>
          /\ calc.startBonusHourly = ZERO /\ calc.completeBonusHourly = ZERO
          /\ calc.bcgHourly = ZERO /\ calc.sickHourly = ZERO
          /\ calc.orientationHourly = ZERO)

C2_Witness ==
  /\ Fresh
  /\ calc.hrsR = ZERO /\ calc.scheduleDays = ZERO
  /\ Gt(calc.bonusStart, ZERO) /\ Gt(calc.ND, ZERO)

(* C3, as stated: after every run of recalc the pay_ot field holds         *)
(* payRegular * 1.5.                                                       *)
C3_PayOtIsOneAndAHalf ==
  (Fresh /\ "pay_ot" \notin missing) =>
    valNum(form, missing, "pay_ot", ZERO) = Mul(calc.payR, Q(3, 2))

(* The content recalc would leave in pay_ot differs from what is there. *)
PayOtStale == form["pay_ot"] # payOtText(valNum(form, missing, "pay_regular", ZERO))

(* C3, amended: after every run of recalc, pay_ot holds payRegular * 1.5   *)
(* rounded to two decimals when payRegular > 0 and is empty otherwise;     *)
(* what pay_ot held before the run has no influence on any output.         *)
C3_PayOtRounded ==
  /\ (Fresh /\ "pay_ot" \notin missing) =>
       IF Gt(calc.payR, ZERO)
       THEN /\ form["pay_ot"].k = "num"
            /\ IsRounded2(form["pay_ot"].v, Mul(calc.payR, Q(3, 2)))
       ELSE form["pay_ot"] = EMPTY
  /\ (loaded /\ queue # <<>> /\ "pay_ot" \notin missing /\ PayOtStale) =>
       \A p \in {EMPTY, Num(R(7))} :
         /\ recalcOut([form EXCEPT !["pay_ot"] = p], missing) = recalcOut(form, missing)
         /\ recalcForm([form EXCEPT !["pay_ot"] = p], missing) = recalcForm(form, missing)

C3_Witness ==
  /\ Fresh /\ "pay_ot" \notin missing
  /\ calc.payR = Q(101, 4)
  /\ form["pay_ot"] = Num(Q(3788, 100))

C5_ZeroContractHours ==
  (Fresh /\ calc.contractRegularHours = ZERO) =>
    /\ calc.startBonusHourly = ZERO /\ calc.completeBonusHourly = ZERO
    /\ calc.bcgHourly = ZERO /\ calc.sickHourly = ZERO
    /\ calc.orientationHourly = ZERO
    /\ calc.hourlyMargin =
         Sub(Sub(calc.hrAfterFee, Mul(calc.payR, Q(123, 100))), calc.NH)

C5_Witness ==
  /\ Fresh /\ calc.contractRegularHours = ZERO
  /\ Gt(calc.hrsR, ZERO) /\ Gt(calc.NH, ZERO) /\ Gt(calc.payR, ZERO)
  /\ Gt(calc.bonusStart, ZERO) /\ Gt(calc.bonusComplete, ZERO)
  /\ Gt(calc.bcgReimb, ZERO) /\ Gt(calc.totalOrientationPay, ZERO)

(* C6: recalc is idempotent: a run of recalc that follows a run with no    *)
(* edit in between shows the same value for every output and leaves the    *)
(* written-back fields sick_hours and pay_ot as the first run left them.   *)
C6_Idempotent ==
  [][(runs >= 1 /\ runs' = runs + 1) =>
       /\ out' = out
       /\ form'["sick_hours"] = form["sick_hours"]
       /\ form'["pay_ot"] = form["pay_ot"]]_vars

(* recalc has run twice in a row on a form whose sick_hours and pay_ot     *)
(* held typed values, with auto sick calculation on.                       *)
C6_Witness ==
  /\ loaded /\ runs = 2
  /\ autoSickOn(form, missing)
  /\ calc.totalContractHours = R(520)
  /\ form["sick_hours"] = Num(Q(1733, 100))
  /\ form["pay_ot"] = Num(R(45))
  /\ Gt(calc.sickHourly, ZERO)

(* C7: renderGauge reports no-input when margin = 0 and the bill rate is   *)
(* 0, otherwise negative when margin < 0, below-target when                *)
(* 0 <= margin < target and healthy when margin >= target; the colour is   *)
(* green exactly when margin >= target, amber exactly when                 *)
(* 0 < margin < target and red otherwise.                                  *)
C7_GaugeStates ==
  (queue = <<>>) =>
    LET mg == calc.hourlyMargin
        target == R(20)
        noInput == mg = ZERO /\ valNum(form, missing, "bill_regular", ZERO) = ZERO
        g == out.gauge
    IN /\ g.msg = (IF noInput THEN "Enter numbers to analyze margin."
                   ELSE IF Lt(mg, ZERO)
                     THEN "Margin is negative. Review pay rates and bill rates."
                   ELSE IF Lt(mg, target)
                     THEN "Margin is below target of ${fmtUSD(target)}."
                   ELSE "Margin looks healthy.")
       /\ (g.stroke = "#1e8e3e") = Ge(mg, target)
       /\ (g.stroke = "#f9ab00") = (Gt(mg, ZERO) /\ Lt(mg, target))
       /\ (g.stroke = "#d93025") = Le(mg, ZERO)

C7_Witness ==
  /\ queue = <<>>
  /\ calc.hourlyMargin = R(20)
  /\ out.gauge.msg = "Margin looks healthy." /\ out.gauge.stroke = "#1e8e3e"

(* C8: for non-negative inputs, when hoursRegular > 40 the weekly taxable  *)
(* pay before additional OT is (hoursRegular - x)*payRegular               *)
(* + x*(payRegular*1.5 + NH), x = scheduleDays * max(0, hoursRegular /     *)
(* max(1, scheduleDays) - 8), with x >= 0, hoursRegular - x >= 0 and       *)
(* x = hoursRegular - 40 when scheduleDays = 5; when hoursRegular <= 40 it *)
(* is hoursRegular * payRegular.                                           *)
C8_WeeklyTaxable ==
  (/\ Fresh
   /\ Ge(calc.hrsR, ZERO) /\ Ge(calc.payR, ZERO) /\ Ge(calc.scheduleDays, ZERO)
   /\ Ge(calc.ND, ZERO)) =>
    LET h == calc.hrsR
        s == calc.scheduleDays
        x == Mul(s, Max(ZERO, Sub(Div(h, Max(R(1), s)), R(8))))
    IN IF Gt(h, R(40))
       THEN /\ calc.weeklyOnW2Taxable =
                 Add(Mul(Sub(h, x), calc.payR),
                     Mul(x, Add(Mul(calc.payR, Q(3, 2)), calc.NH)))
            /\ Ge(x, ZERO) /\ Ge(Sub(h, x), ZERO)
            /\ (s = R(5) => x = Sub(h, R(40)))
       ELSE calc.weeklyOnW2Taxable = Mul(h, calc.payR)

C8_Witness ==
  /\ Fresh
  /\ calc.hrsR = R(45) /\ calc.scheduleDays = R(3)
  /\ Gt(calc.payR, ZERO) /\ Gt(calc.NH, ZERO)
  /\ calc.OT_if_above_8h = R(7)

(* C9, as stated: the fee is the table entry of the selected client and 0  *)
(* whenever the client has no entry, no selected client and a missing      *)
(* client field included; hrAfterFee = billRegular*(1-fee) and             *)
(* otHrAfterFee = billOT*(1-fee).                                          *)
C9_FeeZeroWithoutClient ==
  Fresh =>
    /\ calc.fee = (IF "client" \notin missing /\ form["client"] \in DOMAIN CLIENT_FEES
                   THEN Q(CLIENT_FEES[form["client"]], 1000) ELSE ZERO)
    /\ calc.hrAfterFee = Mul(calc.billR, Sub(R(1), calc.fee))
    /\ calc.otHrAfterFee = Mul(calc.billOT, Sub(R(1), calc.fee))

(* C9, amended: the fee is the table entry of the selected client, of      *)
(* "SimpliFI" (0.06) when no client is selected or the field is missing,   *)
(* and 0 only when a selected client has no entry; the after-fee rates     *)
(* are billRegular*(1-fee) and billOT*(1-fee).                             *)
C9_FeeLookup ==
  Fresh =>
    LET client == IF "client" \in missing \/ form["client"] = ""
                  THEN "SimpliFI" ELSE form["client"]
    IN /\ calc.fee = (IF client \in DOMAIN CLIENT_FEES
                      THEN Q(CLIENT_FEES[client], 1000) ELSE ZERO)
       /\ calc.hrAfterFee = Mul(calc.billR, Sub(R(1), calc.fee))
       /\ calc.otHrAfterFee = Mul(calc.billOT, Sub(R(1), calc.fee))

C9_Witness ==
  /\ Fresh
  /\ form["client"] = "Acme Staffing"
  /\ calc.fee = ZERO /\ Gt(calc.billR, ZERO) /\ calc.hrAfterFee = calc.billR

(* C10: orient_pay has no influence: two forms that differ only in         *)
(* orient_pay give the same outputs (numbers, texts, gauge) and the same   *)
(* written-back fields, under either orientation type.                     *)
C10_OrientPayIgnored ==
  Fresh =>
    \A p \in {EMPTY, JUNK, Num(R(25)), Num(R(40))} :
      LET g == [form EXCEPT !["orient_pay"] = p]
      IN /\ recalcOut(g, missing) = out
         /\ recalcForm(g, missing) = g

C10_Witness ==
  /\ Fresh
  /\ form["orient_type"] = "Billable" /\ "orient_type" \notin missing
  /\ form["orient_pay"] = Num(R(40))
  /\ Gt(calc.totalOrientationPay, ZERO)
====
